---- MODULE Spec2Model ----
(***************************************************************************)
(* Model of the Lex code hook in "Lambda Functions/LF1.py": the slot       *)
(* validator, the three response builders, the dining-suggestion flow,     *)
(* the dispatcher and the SQS submission.                                  *)
(*                                                                         *)
(* Python values are represented as follows.                               *)
(*   str    a tuple of one-character strings                               *)
(*   None   the record None                                                *)
(*   dict   a function whose domain is the set of keys that are present    *)
(*   a call either returns a value or raises, so the operators that can    *)
(*   raise yield [kind |-> "return", value |-> v] or                       *)
(*   [kind |-> "raise", exc |-> name].                                     *)
(***************************************************************************)
EXTENDS Integers, Sequences, FiniteSets, TLC

None == [t |-> "None"]

Return(v) == [kind |-> "return", value |-> v]

Raise(e) == [kind |-> "raise", exc |-> e]

(* dict.get(key, None) *)
Get(d, k) == IF k \in DOMAIN d THEN d[k] ELSE None

(***************************************************************************)
(* Characters and str methods                                              *)
(***************************************************************************)
UpperChars ==
  <<"A","B","C","D","E","F","G","H","I","J","K","L","M",
    "N","O","P","Q","R","S","T","U","V","W","X","Y","Z">>

LowerChars ==
  <<"a","b","c","d","e","f","g","h","i","j","k","l","m",
    "n","o","p","q","r","s","t","u","v","w","x","y","z">>

Digits == <<"0","1","2","3","4","5","6","7","8","9">>

IsDigit(c) == \E i \in DOMAIN Digits : Digits[i] = c

DigitVal(c) == (CHOOSE i \in DOMAIN Digits : Digits[i] = c) - 1

LowerChar(c) ==
  IF \E i \in DOMAIN UpperChars : UpperChars[i] = c
  THEN LowerChars[CHOOSE i \in DOMAIN UpperChars : UpperChars[i] = c]
  ELSE c

(* str.lower() *)
lower(s) == [i \in DOMAIN s |-> LowerChar(s[i])]

(* str.isdigit() on a token: non-empty and all digits *)
isdigit(s) == Len(s) > 0 /\ \A i \in DOMAIN s : IsDigit(s[i])

RECURSIVE DigitsToNat(_)
DigitsToNat(s) ==
  IF Len(s) = 0 THEN 0
  ELSE 10 * DigitsToNat(SubSeq(s, 1, Len(s) - 1)) + DigitVal(s[Len(s)])

(* str(n) for an integer n *)
RECURSIVE NatToStr(_)
NatToStr(n) ==
  IF n < 10 THEN <<Digits[n + 1]>>
  ELSE NatToStr(n \div 10) \o <<Digits[(n % 10) + 1]>>

IntToStr(n) == IF n < 0 THEN <<"-">> \o NatToStr(0 - n) ELSE NatToStr(n)

(* int(s) for a str over signs, digits and letters: an optional sign        *)
(* followed by one or more digits, anything else is a ValueError           *)
py_int(s) ==
  LET signed == Len(s) > 0 /\ s[1] \in {"-", "+"}
      body   == IF signed THEN SubSeq(s, 2, Len(s)) ELSE s
  IN  IF isdigit(body)
      THEN Return(IF signed /\ s[1] = "-" THEN 0 - DigitsToNat(body)
                  ELSE DigitsToNat(body))
      ELSE Raise("ValueError")

(* the fields of s between occurrences of the separator sep *)
RECURSIVE Split(_, _)
Split(s, sep) ==
  IF \E i \in DOMAIN s : s[i] = sep
  THEN LET i == CHOOSE j \in DOMAIN s :
                  s[j] = sep /\ \A k \in 1..(j - 1) : s[k] # sep
       IN  <<SubSeq(s, 1, i - 1)>> \o Split(SubSeq(s, i + 1, Len(s)), sep)
  ELSE <<s>>

(***************************************************************************)
(* Calendar dates: <<year, month, day>>                                    *)
(***************************************************************************)
IsLeap(y) == (y % 4 = 0 /\ y % 100 # 0) \/ y % 400 = 0

DaysInMonth(y, m) ==
  IF m = 2 THEN (IF IsLeap(y) THEN 29 ELSE 28)
  ELSE IF m \in {4, 6, 9, 11} THEN 30 ELSE 31

(* datetime.date(y, m, d) succeeds *)
IsCalendarDate(y, m, d) ==
  /\ y \in 1..9999
  /\ m \in 1..12
  /\ d \in 1..DaysInMonth(y, m)

(* date.__le__ *)
DateLE(a, b) ==
  \/ a[1] < b[1]
  \/ a[1] = b[1] /\ a[2] < b[2]
  \/ a[1] = b[1] /\ a[2] = b[2] /\ a[3] <= b[3]

(***************************************************************************)
(* dateutil.parser.parse, for the strings of DateutilDomain: the empty     *)
(* string, a word that is no month, weekday, am/pm or time-zone name, and  *)
(* two or three fields of one to four digits joined by "-" or by "/".      *)
(* today is the value of datetime.now().date(), which supplies the fields  *)
(* the string leaves out and the century of a two-digit year.              *)
(***************************************************************************)
DateSep(s) == IF \E i \in DOMAIN s : s[i] = "-" THEN "-" ELSE "/"

DateFields(s) == Split(s, DateSep(s))

IsWord(s) ==
  Len(s) > 0 /\ \A i \in DOMAIN s : \E j \in DOMAIN LowerChars : LowerChars[j] = s[i]

IsNumericFields(s) ==
  /\ \A i \in DOMAIN s : IsDigit(s[i]) \/ s[i] = DateSep(s)
  /\ Len(DateFields(s)) \in {2, 3}
  /\ \A i \in DOMAIN DateFields(s) :
        isdigit(DateFields(s)[i]) /\ Len(DateFields(s)[i]) \in 1..4

DateutilDomain(s) == Len(s) = 0 \/ IsWord(s) \/ IsNumericFields(s)

Missing == 0 - 1

(* _ymd.append: a token of more than two digits is the year *)
IsYearToken(tok) == Len(tok) > 2

(* parserinfo.convertyear *)
convertyear(year, century_specified, today) ==
  IF year < 100 /\ ~century_specified
  THEN LET y == year + (today[1] \div 100) * 100
       IN  IF y >= today[1] + 50 THEN y - 100
           ELSE IF y < today[1] - 50 THEN y + 100
           ELSE y
  ELSE year

(* _ymd.resolve_ymd with dayfirst = yearfirst = False and no month name;   *)
(* Missing stands for a field the string does not give                     *)
resolve_ymd(toks) ==
  LET n  == [i \in DOMAIN toks |-> DigitsToNat(toks[i])]
      y0 == IsYearToken(toks[1])
  IN  IF Len(toks) = 2
      THEN IF n[1] > 31 THEN <<n[1], n[2], Missing>>
           ELSE IF n[2] > 31 THEN <<n[2], n[1], Missing>>
           ELSE <<Missing, n[1], n[2]>>
      ELSE IF n[1] > 31 \/ y0 THEN <<n[1], n[2], n[3]>>
           ELSE IF n[1] > 12 THEN <<n[3], n[2], n[1]>>
           ELSE <<n[3], n[1], n[2]>>

(* parser._build_naive: default.replace with the fields found, the        *)
(* default day clamped                                                     *)
(* to the month's length when the string gives no day                      *)
build_naive(ymd, century_specified, today) ==
  LET year  == IF ymd[1] = Missing THEN today[1]
               ELSE convertyear(ymd[1], century_specified, today)
      month == ymd[2]
      day   == IF ymd[3] # Missing THEN ymd[3]
               ELSE IF month \in 1..12 /\ today[3] > DaysInMonth(year, month)
                    THEN DaysInMonth(year, month)
                    ELSE today[3]
  IN  IF IsCalendarDate(year, month, day)
      THEN Return(<<year, month, day>>)
      ELSE Raise("ValueError")

dateutil_parse(s, today) ==
  IF Len(s) = 0 \/ IsWord(s) THEN Raise("ValueError")
  ELSE LET toks  == DateFields(s)
           years == {i \in DOMAIN toks : IsYearToken(toks[i])}
       IN  IF Cardinality(years) > 1 THEN Raise("ValueError")
           ELSE build_naive(resolve_ymd(toks), years # {}, today)

(***************************************************************************)
(* datetime.strptime(s, '%Y-%m-%d').date()                                 *)
(* The format compiles to a pattern that must match the whole string:     *)
(* four digits, a dash, a month 1..12 with or without a leading zero, a    *)
(* dash, a day 1..31 with or without a leading zero or with a leading      *)
(* blank.                                                                  *)
(***************************************************************************)
MatchesMonth(f) ==
  /\ isdigit(f) /\ Len(f) \in {1, 2}
  /\ DigitsToNat(f) \in 1..12
  /\ Len(f) = 2 \/ f[1] # "0"

MatchesDay(f) ==
  \/ /\ isdigit(f) /\ Len(f) \in {1, 2}
     /\ DigitsToNat(f) \in 1..31
     /\ Len(f) = 2 \/ f[1] # "0"
  \/ Len(f) = 2 /\ f[1] = " " /\ IsDigit(f[2]) /\ f[2] # "0"

DayValue(f) == IF f[1] = " " THEN DigitVal(f[2]) ELSE DigitsToNat(f)

strptime_ymd(s) ==
  LET f == Split(s, "-")
  IN  IF /\ Len(f) = 3
         /\ isdigit(f[1]) /\ Len(f[1]) = 4
         /\ MatchesMonth(f[2])
         /\ MatchesDay(f[3])
         /\ IsCalendarDate(DigitsToNat(f[1]), DigitsToNat(f[2]), DayValue(f[3]))
      THEN Return(<<DigitsToNat(f[1]), DigitsToNat(f[2]), DayValue(f[3])>>)
      ELSE Raise("ValueError")

(***************************************************************************)
(* The field validators                                                    *)
(***************************************************************************)
valid_cities == {<<"n", "e", "w", " ", "y", "o", "r", "k">>, <<"m", "a", "n", "h", "a", "t", "t", "a", "n">>, <<"b", "r", "o", "o", "k", "l", "y", "n">>, <<"n", "y", "c">>}

valid_cuisines ==
  {<<"i", "n", "d", "i", "a", "n">>, <<"d", "e", "s", "i">>, <<"a", "m", "e", "r", "i", "c", "a", "n">>, <<"v", "e", "g", "e", "t", "a", "r", "i", "a", "n">>, <<"s", "e", "a", "f", "o", "o", "d">>,
   <<"c", "h", "i", "n", "e", "s", "e">>, <<"k", "o", "r", "e", "a", "n">>, <<"m", "e", "x", "i", "c", "a", "n">>, <<"m", "e", "d", "i", "t", "e", "r", "r", "a", "n", "e", "a", "n">>, <<"v", "e", "g", "a", "n">>}

is_valid_location(city) == lower(city) \in valid_cities

(* fault: the cuisine check lets every cuisine through *)
is_valid_cuisine_Any(cuisine) == TRUE

is_valid_cuisine(cuisine) == lower(cuisine) \in valid_cuisines

(* try: dateutil.parser.parse(date) ... except ValueError: return False *)
is_valid_date(date, today) == dateutil_parse(date, today).kind = "return"

(* re.match of the pattern: one or more characters other than the at     *)
(* sign, an at sign, one or more such characters, a dot, one or more such  *)
(* characters; re.match accepts a match of a prefix of email               *)
is_valid_email(email) ==
  \E a \in DOMAIN email, dot \in DOMAIN email :
     /\ a > 1 /\ email[a] = "@"
     /\ \A i \in 1..(a - 1) : email[i] # "@"
     /\ dot > a + 1 /\ email[dot] = "."
     /\ \A i \in (a + 1)..(dot - 1) : email[i] # "@"
     /\ dot < Len(email) /\ email[dot + 1] # "@"

(***************************************************************************)
(* validate_slots                                                          *)
(***************************************************************************)
(* an f-string or literal: the literal text and the values formatted in *)
Msg(text, args) == [text |-> text, args |-> args]

(* truth value of a slot entry: None and the empty dict are false *)
Truthy(v) == v # None /\ v # <<>>

interpretedValue(slot) == slot["value"]["interpretedValue"]

build_validation_result(isvalid, violated_slot, message_content) ==
  [isValid |-> isvalid, violatedSlot |-> violated_slot, message |-> message_content]

MinGuests == 1

(* fault: the upper limit off by one *)
MaxGuests_OffByOne == 10 + 1

MaxGuests == 10

validate_slots(slots, today) ==
  LET city             == Get(slots, "location")
      cuisine          == Get(slots, "cuisine")
      reservation_date == Get(slots, "reservationDate")
      reservation_time == Get(slots, "reservationTime")
      number_of_people == Get(slots, "numberOfPeople")
      email            == Get(slots, "email")
      phone_number     == Get(slots, "phone_number")
  IN
  IF Truthy(city) /\ ~is_valid_location(interpretedValue(city))
  THEN Return(build_validation_result(FALSE, "location",
         Msg("We currently do not support {}. We only support New York (New York, Manhattan, Brooklyn) region. Which location do you want to book for?",
             <<interpretedValue(city)>>)))
  ELSE IF Truthy(cuisine) /\ ~is_valid_cuisine(interpretedValue(cuisine))
  THEN Return(build_validation_result(FALSE, "cuisine",
         Msg("We currently do not offer {} cuisine. Can you try a different one?",
             <<interpretedValue(cuisine)>>)))
  ELSE IF Truthy(reservation_date)
          /\ ~is_valid_date(interpretedValue(reservation_date), today)
  THEN Return(build_validation_result(FALSE, "reservationDate",
         Msg("Please enter a valid reservation date. When would you like to make your reservation?",
             <<>>)))
  ELSE IF Truthy(reservation_date)
          /\ strptime_ymd(interpretedValue(reservation_date)).kind = "raise"
  THEN Raise(strptime_ymd(interpretedValue(reservation_date)).exc)
  ELSE IF Truthy(reservation_date)
          /\ DateLE(strptime_ymd(interpretedValue(reservation_date)).value, today)
  THEN Return(build_validation_result(FALSE, "reservationDate",
         Msg("The reservation date must be in the future. Can you please provide a future date for your reservation?",
             <<>>)))
  ELSE IF number_of_people # None
          /\ py_int(interpretedValue(number_of_people)).kind = "raise"
  THEN Raise(py_int(interpretedValue(number_of_people)).exc)
  ELSE IF number_of_people # None
          /\ (\/ py_int(interpretedValue(number_of_people)).value < MinGuests
              \/ py_int(interpretedValue(number_of_people)).value > MaxGuests)
  THEN Return(build_validation_result(FALSE, "numberOfPeople",
         Msg("We accept reservations for up to 10 guests only. How many guests will be attending?",
             <<>>)))
  ELSE IF email # None /\ ~is_valid_email(interpretedValue(email))
  THEN Return(build_validation_result(FALSE, "email",
         Msg("Please provide a valid email address.", <<>>)))
  ELSE Return([isValid |-> TRUE])

(***************************************************************************)
(* The response builders                                                   *)
(***************************************************************************)
close_request(session_attributes, intent_name, message) ==
  [sessionState |->
     [sessionAttributes |-> session_attributes,
      dialogAction      |-> [type |-> "Close"],
      intent            |-> [name |-> intent_name, state |-> "Fulfilled"]],
   messages |-> <<[contentType |-> "PlainText", content |-> message]>>]

elicit_slot(session_attributes, intent_name, slots, slot_to_elicit, message) ==
  [sessionState |->
     [sessionAttributes |-> session_attributes,
      dialogAction      |-> [type |-> "ElicitSlot", slotToElicit |-> slot_to_elicit],
      intent            |-> [name |-> intent_name, slots |-> slots]],
   messages |-> <<message>>]

delegate(session_attributes, slots, intent_name) ==
  [sessionState |->
     [sessionAttributes |-> session_attributes,
      dialogAction      |-> [type |-> "Delegate"],
      intent            |-> [name |-> intent_name, slots |-> slots,
                             state |-> "ReadyForFulfillment"]]]

(***************************************************************************)
(* sqs_send: one submission, made of creating the client, serializing     *)
(* the request and one send_message call. The queue accepts the message,   *)
(* or some step raises and the exception is caught. accepted is the        *)
(* outcome of this submission. sends lists the request bodies submitted.   *)
(***************************************************************************)
(* fault: True returned after the except clause as well *)
sqs_send_AlwaysTrue(dinning_details, accepted) ==
  [value |-> TRUE, sends |-> <<dinning_details>>]

(* fault: a second send_message call after a failed one *)
sqs_send_Retry(dinning_details, accepted) ==
  [value |-> accepted,
   sends |-> IF accepted THEN <<dinning_details>>
             ELSE <<dinning_details, dinning_details>>]

sqs_send(dinning_details, accepted) ==
  [value |-> accepted, sends |-> <<dinning_details>>]

(* fault: the session attributes are not read from the event *)
SessionAttributesOf_Dropped(intent) == <<>>

(* the session attributes of the event, {} when the key is absent or None *)
SessionAttributesOf(intent) ==
  IF Get(intent, "sessionAttributes") # None
  THEN Get(intent, "sessionAttributes")
  ELSE <<>>

(* fault: every slot is reset, not only the violated one *)
SetSlot_ClearAll(slots, name, v) == [k \in DOMAIN slots \cup {name} |-> v]

(* slots[violated_slot] = None *)
SetSlot(slots, name, v) ==
  [k \in DOMAIN slots \cup {name} |-> IF k = name THEN v ELSE slots[k]]

(***************************************************************************)
(* The handlers. Each yields [out, sends]: out is the value returned or    *)
(* the exception raised, sends the message bodies handed to the queue.     *)
(***************************************************************************)
dining_suggestion(intent, today, accepted) ==
  LET intent_name        == intent.sessionState.intent.name
      slots              == intent.sessionState.intent.slots
      session_attributes == SessionAttributesOf(intent)
      dinning_details ==
        [ReservationType |-> "Dining",
         location        |-> Get(slots, "location"),
         Cuisine         |-> Get(slots, "cuisine"),
         DiningTime      |-> Get(slots, "reservationTime"),
         DiningDate      |-> Get(slots, "reservationDate"),
         NumberofPeople  |-> Get(slots, "numberOfPeople"),
         Email           |-> Get(slots, "email"),
         PhoneNumber     |-> Get(slots, "phone_number")]
  IN
  IF intent.invocationSource = "DialogCodeHook"
  THEN LET result == validate_slots(slots, today)
       IN  IF result.kind = "raise"
           THEN [out |-> result, sends |-> <<>>]
           ELSE IF ~result.value.isValid
           THEN [out |-> Return(elicit_slot(
                           session_attributes,
                           intent_name,
                           SetSlot(slots, result.value.violatedSlot, None),
                           result.value.violatedSlot,
                           [contentType |-> "PlainText",
                            content |-> result.value.message])),
                 sends |-> <<>>]
           ELSE [out |-> Return(delegate(session_attributes, slots, intent_name)),
                 sends |-> <<>>]
  ELSE IF intent.invocationSource = "FulfillmentCodeHook"
  THEN LET sqs_result == sqs_send(dinning_details, accepted)
           message ==
             IF sqs_result.value
             THEN Msg("You're all set. Expect my suggestions shortly! Have a good day.", <<>>)
             ELSE Msg("Sorry, we are facing some issues. Please try again later.", <<>>)
       IN  [out |-> Return(close_request(session_attributes, intent_name, message)),
            sends |-> sqs_result.sends]
  ELSE [out |-> Return(None), sends |-> <<>>]

greeting_intent(intent) ==
  LET intent_name        == intent.sessionState.intent.name
      session_attributes == SessionAttributesOf(intent)
      message ==
        [contentType |-> "PlainText",
         content |-> Msg("Hi there, I am your Dining Concierge Bot. How can I help you today? You can ask for restaurant suggestions or specify any cuisine you like!", <<>>)]
  IN  [out |-> Return(elicit_slot(session_attributes, intent_name,
                                  intent.sessionState.intent.slots, None, message)),
       sends |-> <<>>]

thankyou_intent(intent) ==
  LET intent_name        == intent.sessionState.intent.name
      session_attributes == SessionAttributesOf(intent)
      message ==
        Msg("Thank you for using Dining Concierge Bot. How can I help you next time?", <<>>)
  IN  [out |-> Return(close_request(session_attributes, intent_name, message)),
       sends |-> <<>>]

dispatch(event, today, accepted) ==
  LET intent_name == event.sessionState.intent.name
  IN  IF intent_name = "DiningSuggestionsIntent"
      THEN dining_suggestion(event, today, accepted)
      ELSE IF intent_name = "GreetingIntent" THEN greeting_intent(event)
      ELSE IF intent_name = "ThankYouIntent" THEN thankyou_intent(event)
      ELSE [out |-> Return(None), sends |-> <<>>]

(* os.environ['TZ'] = 'America/New_York'; time.tzset(): today is the date  *)
(* of the New York clock                                                   *)
lambda_handler(event, today, accepted) == dispatch(event, today, accepted)

(***************************************************************************)
(* Inputs                                                                  *)
(***************************************************************************)
MaxPeople == 11

MaxInvocations == 3

MinPeople == 0 - 1

SlotNames ==
  {"location", "cuisine", "reservationDate", "reservationTime",
   "numberOfPeople", "email", "phone_number"}

SlotValue(s) == [value |-> [interpretedValue |-> s]]

(* the dates datetime.now().date() takes in the checked runs *)
Clock == {<<2026, 11, 1>>, <<2026, 12, 31>>}

LocationStrings == {<<"N", "Y", "C">>, <<"Q", "u", "e", "e", "n", "s">>}

CuisineStrings == {<<"I", "n", "d", "i", "a", "n">>, <<"t", "h", "a", "i">>}

(* date strings, all of them strings that dateutil_parse models *)
DateStrings ==
  {s \in {<<"2", "0", "2", "7", "-", "0", "1", "-", "0", "1">>, <<"2", "0", "2", "6", "-", "1", "1", "-", "0", "2">>, <<"2", "0", "2", "6", "-", "1", "1", "-", "0", "1">>, <<"2", "0", "2", "6", "-", "1", "2", "-", "3", "1">>,
          <<"2", "0", "2", "6", "-", "1", "0", "-", "3", "1">>, <<"2", "0", "2", "6", "-", "1", "1", "-", "2">>, <<"2", "0", "2", "6", "-", "0", "2", "-", "3", "0">>, <<"1", "1", "/", "0", "5", "/", "2", "0", "2", "7">>,
          <<"1", "1", "/", "0", "5", "/", "2", "0", "2", "0">>, <<"2", "0", "2", "7", "-", "0", "1">>, <<"s", "o", "o", "n">>, <<>>} : DateutilDomain(s)}

TimeStrings == {<<"1", "9", ":", "0", "0">>}

PeopleStrings == {IntToStr(n) : n \in MinPeople..MaxPeople} \cup {<<"f", "i", "v", "e">>}

EmailStrings == {<<"a", "@", "b", ".", "c", "o", "m">>, <<"n", "o", "t", "-", "a", "n", "-", "e", "m", "a", "i", "l">>}

PhoneStrings == {<<"1", "2", "3">>}

Entries(strings) == {None} \cup {SlotValue(s) : s \in strings}

(* a slot mapping: unset slots are null (keepNull) or their keys are absent *)
SlotMapping(l, c, d, t, p, e, ph, keepNull) ==
  LET all == [k \in SlotNames |->
                CASE k = "location"        -> l
                  [] k = "cuisine"         -> c
                  [] k = "reservationDate" -> d
                  [] k = "reservationTime" -> t
                  [] k = "numberOfPeople"  -> p
                  [] k = "email"           -> e
                  [] k = "phone_number"    -> ph]
  IN  IF keepNull THEN all
      ELSE [k \in {n \in SlotNames : all[n] # None} |-> all[k]]

SlotMappings(L, C, D, T, P, E, PH) ==
  { SlotMapping(l, c, d, t, p, e, ph, keepNull) :
      l \in Entries(L), c \in Entries(C), d \in Entries(D), t \in Entries(T),
      p \in Entries(P), e \in Entries(E), ph \in Entries(PH),
      keepNull \in BOOLEAN }

(* every slot mapping over the input strings: the validator's inputs *)
AllSlotMappings ==
  SlotMappings(LocationStrings, CuisineStrings, DateStrings, TimeStrings,
               PeopleStrings, EmailStrings, PhoneStrings)

(* the slot mappings of single invocations *)
InvokeSlotMappings ==
  SlotMappings(LocationStrings, {<<"t", "h", "a", "i">>},
               {<<"2", "0", "2", "7", "-", "0", "1", "-", "0", "1">>, <<"1", "1", "/", "0", "5", "/", "2", "0", "2", "7">>, <<"2", "0", "2", "6", "-", "1", "1", "-", "0", "1">>}, {},
               {<<"2">>, <<"1", "1">>}, {<<"a", "@", "b", ".", "c", "o", "m">>}, {})

(* the slot mappings of sequences of invocations *)
SeqSlotMappings ==
  { SlotMapping(None, None, None, None, None, None, None, TRUE),
    SlotMapping(SlotValue(<<"N", "Y", "C">>), SlotValue(<<"I", "n", "d", "i", "a", "n">>),
                SlotValue(<<"2", "0", "2", "7", "-", "0", "1", "-", "0", "1">>), SlotValue(<<"1", "9", ":", "0", "0">>),
                SlotValue(<<"2">>), SlotValue(<<"a", "@", "b", ".", "c", "o", "m">>),
                SlotValue(<<"1", "2", "3">>), TRUE),
    SlotMapping(SlotValue(<<"Q", "u", "e", "e", "n", "s">>), None, None, None, None, None, None, FALSE),
    SlotMapping(SlotValue(<<"N", "Y", "C">>), None, SlotValue(<<"2", "0", "2", "7", "-", "0", "1">>), None,
                SlotValue(<<"1", "1">>), None, None, TRUE) }

IntentNames ==
  {"DiningSuggestionsIntent", "GreetingIntent", "ThankYouIntent", "FallbackIntent"}

InvocationSources == {"DialogCodeHook", "FulfillmentCodeHook", "Other"}

SessionAttributeValues == {None, <<>>, [userId |-> "u1"], [userId |-> "u2", lang |-> "en"]}

(* an intent event; the sessionAttributes key is present or absent *)
Events(slotMappings, sessionValues) ==
  LET base(n, src, sl) ==
        [bot |-> [name |-> "DiningConcierge"],
         invocationSource |-> src,
         sessionState |-> [intent |-> [name |-> n, slots |-> sl]]]
      with(n, src, sl, sa) ==
        [bot |-> [name |-> "DiningConcierge"],
         invocationSource |-> src,
         sessionState |-> [intent |-> [name |-> n, slots |-> sl]],
         sessionAttributes |-> sa]
  IN  { base(n, src, sl) :
          n \in IntentNames, src \in InvocationSources, sl \in slotMappings }
      \cup
      { with(n, src, sl, sa) :
          n \in IntentNames, src \in InvocationSources, sl \in slotMappings,
          sa \in sessionValues }

InvokeEvents == Events(InvokeSlotMappings, SessionAttributeValues)

SeqEvents == Events(SeqSlotMappings, {[userId |-> "u1"]})

(***************************************************************************)
(* State                                                                   *)
(***************************************************************************)
VARIABLES
  event,        \* the event of the last invocation, None before the first
  now,          \* datetime.now().date() at the last invocation or validation
  outcome,      \* what the last invocation returned or raised
  sqs,          \* the queue's answer at the last invocation
  queue,        \* the message bodies the queue holds
  attempts,     \* the number of submissions attempted so far
  fulfillments, \* the number of fulfillment-phase dining invocations so far
  invocations,  \* the number of invocations so far
  vslots,       \* the argument of the last validate_slots call made alone
  vresult       \* its result

vars ==
  <<event, now, outcome, sqs, queue, attempts, fulfillments, invocations,
    vslots, vresult>>

NotCalled == [kind |-> "none"]

Init ==
  /\ event = None
  /\ now \in Clock
  /\ outcome = NotCalled
  /\ sqs = "unused"
  /\ queue = <<>>
  /\ attempts = 0
  /\ fulfillments = 0
  /\ invocations = 0
  /\ vslots = None
  /\ vresult = NotCalled

IsFulfillment(e) ==
  /\ e.sessionState.intent.name = "DiningSuggestionsIntent"
  /\ e.invocationSource = "FulfillmentCodeHook"

(* one invocation of lambda_handler: accepted is the queue's answer to a   *)
(* send_message call made during it                                        *)
Invoke(e, today, accepted) ==
  LET r == lambda_handler(e, today, accepted)
  IN  /\ event' = e
      /\ now' = today
      /\ outcome' = r.out
      /\ sqs' = IF r.sends = <<>> THEN "unused"
                ELSE IF accepted THEN "ok" ELSE "error"
      /\ queue' = IF accepted THEN queue \o r.sends ELSE queue
      /\ attempts' = attempts + Len(r.sends)
      /\ fulfillments' = fulfillments + (IF IsFulfillment(e) THEN 1 ELSE 0)
      /\ invocations' = invocations + 1
      /\ UNCHANGED <<vslots, vresult>>

EventsNamed(events, names) ==
  {e \in events : e.sessionState.intent.name \in names}

UnroutedNames ==
  IntentNames \ {"DiningSuggestionsIntent", "GreetingIntent", "ThankYouIntent"}

(* a call of validate_slots alone *)
Validate ==
  /\ vresult = NotCalled
  /\ \E s \in AllSlotMappings, today \in Clock :
       /\ vslots' = s
       /\ now' = today
       /\ vresult' = validate_slots(s, today)
  /\ UNCHANGED <<event, outcome, sqs, queue, attempts, fulfillments, invocations>>

(***************************************************************************)
(* Spec: sequences of up to MaxInvocations invocations                     *)
(***************************************************************************)
DiningInvocation ==
  /\ invocations < MaxInvocations
  /\ \E e \in EventsNamed(SeqEvents, {"DiningSuggestionsIntent"}),
        today \in Clock, accepted \in BOOLEAN :
       Invoke(e, today, accepted)

GreetingInvocation ==
  /\ invocations < MaxInvocations
  /\ \E e \in EventsNamed(SeqEvents, {"GreetingIntent"}),
        today \in Clock, accepted \in BOOLEAN :
       Invoke(e, today, accepted)

ThankYouInvocation ==
  /\ invocations < MaxInvocations
  /\ \E e \in EventsNamed(SeqEvents, {"ThankYouIntent"}),
        today \in Clock, accepted \in BOOLEAN :
       Invoke(e, today, accepted)

OtherInvocation ==
  /\ invocations < MaxInvocations
  /\ \E e \in EventsNamed(SeqEvents, UnroutedNames),
        today \in Clock, accepted \in BOOLEAN :
       Invoke(e, today, accepted)

Next ==
  \/ DiningInvocation
  \/ GreetingInvocation
  \/ ThankYouInvocation
  \/ OtherInvocation

Spec == Init /\ [][Next]_vars

(***************************************************************************)
(* SpecInvoke: one invocation, over the larger set of events               *)
(***************************************************************************)
SingleDining ==
  /\ invocations = 0
  /\ \E e \in EventsNamed(InvokeEvents, {"DiningSuggestionsIntent"}),
        today \in Clock, accepted \in BOOLEAN :
       Invoke(e, today, accepted)

SingleGreeting ==
  /\ invocations = 0
  /\ \E e \in EventsNamed(InvokeEvents, {"GreetingIntent"}),
        today \in Clock, accepted \in BOOLEAN :
       Invoke(e, today, accepted)

SingleThankYou ==
  /\ invocations = 0
  /\ \E e \in EventsNamed(InvokeEvents, {"ThankYouIntent"}),
        today \in Clock, accepted \in BOOLEAN :
       Invoke(e, today, accepted)

SingleOther ==
  /\ invocations = 0
  /\ \E e \in EventsNamed(InvokeEvents, UnroutedNames),
        today \in Clock, accepted \in BOOLEAN :
       Invoke(e, today, accepted)

NextInvoke == SingleDining \/ SingleGreeting \/ SingleThankYou \/ SingleOther

SpecInvoke == Init /\ [][NextInvoke]_vars

(***************************************************************************)
(* SpecValidate: validate_slots applied to every slot mapping              *)
(***************************************************************************)
NextValidate == Validate

SpecValidate == Init /\ [][NextValidate]_vars

(***************************************************************************)
(* Properties                                                              *)
(***************************************************************************)
Called == outcome # NotCalled

Responded == outcome.kind = "return" /\ outcome.value # None

IntentSlots(e) == e.sessionState.intent.slots

IsDining(e) == e.sessionState.intent.name = "DiningSuggestionsIntent"

IsDialog(e) == e.invocationSource = "DialogCodeHook"

DialogType(r) == r.sessionState.dialogAction.type

(* the session attributes the event supplies, the empty mapping if none *)
SuppliedAttributes(e) ==
  IF "sessionAttributes" \in DOMAIN e /\ e.sessionAttributes # None
  THEN e.sessionAttributes
  ELSE <<>>

(* The rules of the slots, as the specification's table states them; a     *)
(* date parses as a calendar date when is_valid_date's parser accepts it   *)
Present(slots, k) == Get(slots, k) # None

ValueOf(slots, k) == slots[k]["value"]["interpretedValue"]

LocationRule(s) == lower(s) \in valid_cities

CuisineRule(s) == lower(s) \in valid_cuisines

DateParses(s, today) == dateutil_parse(s, today).kind = "return"

DateRule(s, today) ==
  DateParses(s, today) /\ ~DateLE(dateutil_parse(s, today).value, today)

PeopleRule(s) ==
  py_int(s).kind = "return" /\ py_int(s).value >= 1 /\ py_int(s).value <= 10

EmailRule(s) == is_valid_email(s)

ValidationOrder ==
  <<"location", "cuisine", "reservationDate", "numberOfPeople", "email">>

SatisfiesRule(slots, k, today) ==
  CASE k = "location"        -> LocationRule(ValueOf(slots, k))
    [] k = "cuisine"         -> CuisineRule(ValueOf(slots, k))
    [] k = "reservationDate" -> DateRule(ValueOf(slots, k), today)
    [] k = "numberOfPeople"  -> PeopleRule(ValueOf(slots, k))
    [] k = "email"           -> EmailRule(ValueOf(slots, k))
    [] OTHER                 -> TRUE

(* the positions in ValidationOrder of the present slots that break their rule *)
InvalidPositions(slots, today) ==
  {i \in DOMAIN ValidationOrder :
     /\ Present(slots, ValidationOrder[i])
     /\ ~SatisfiesRule(slots, ValidationOrder[i], today)}

AllPresentSatisfy(slots, today) == InvalidPositions(slots, today) = {}

FirstInvalid(slots, today) ==
  ValidationOrder[CHOOSE i \in InvalidPositions(slots, today) :
                    \A j \in InvalidPositions(slots, today) : i <= j]

(* C1: every response carries the session attributes the event supplied,   *)
(* and the empty mapping when the event supplies none, on every path       *)
(* (greeting, thank-you, dialog phase, fulfillment phase).                 *)
C1_SessionAttributesEchoed ==
  Called /\ Responded =>
    outcome.value.sessionState.sessionAttributes = SuppliedAttributes(event)

C1_Witness ==
  /\ Called /\ Responded
  /\ IsFulfillment(event) /\ sqs = "error"
  /\ outcome.value.sessionState.sessionAttributes = [userId |-> "u2", lang |-> "en"]

(* C2: a dialog-phase dining invocation whose slots validate_slots reports *)
(* invalid answers ElicitSlot for the violated slot with the validator's   *)
(* message; the violated slot is null in the returned mapping and every    *)
(* other slot keeps its input value.                                       *)
C2_ElicitViolatedSlot ==
  /\ Called /\ IsDining(event) /\ IsDialog(event)
  /\ validate_slots(IntentSlots(event), now).kind = "return"
  /\ ~validate_slots(IntentSlots(event), now).value.isValid
  => LET v  == validate_slots(IntentSlots(event), now).value
         r  == outcome.value
         in == IntentSlots(event)
     IN  /\ Responded
         /\ DialogType(r) = "ElicitSlot"
         /\ r.sessionState.dialogAction.slotToElicit = v.violatedSlot
         /\ r.messages = <<[contentType |-> "PlainText", content |-> v.message]>>
         /\ DOMAIN r.sessionState.intent.slots = DOMAIN in \cup {v.violatedSlot}
         /\ r.sessionState.intent.slots[v.violatedSlot] = None
         /\ \A k \in DOMAIN in \ {v.violatedSlot} :
               r.sessionState.intent.slots[k] = in[k]

C2_Witness ==
  /\ Called /\ Responded /\ IsDining(event) /\ IsDialog(event)
  /\ DialogType(outcome.value) = "ElicitSlot"
  /\ outcome.value.sessionState.dialogAction.slotToElicit = "cuisine"
  /\ Present(IntentSlots(event), "location")
  /\ Present(IntentSlots(event), "numberOfPeople")
  /\ Present(outcome.value.sessionState.intent.slots, "numberOfPeople")

(* C3: a dialog-phase dining invocation in which every present slot        *)
(* satisfies its rule answers Delegate, ReadyForFulfillment, with the      *)
(* input slots unchanged, and submits nothing to the queue.                *)
C3_ValidSlotsDelegate ==
  /\ Called /\ IsDining(event) /\ IsDialog(event)
  /\ AllPresentSatisfy(IntentSlots(event), now)
  => /\ Responded
     /\ DialogType(outcome.value) = "Delegate"
     /\ outcome.value.sessionState.intent.state = "ReadyForFulfillment"
     /\ outcome.value.sessionState.intent.slots = IntentSlots(event)
     /\ attempts = 0
     /\ queue = <<>>

(* C4: a fulfillment-phase dining invocation never raises and answers      *)
(* Close with state Fulfilled: the confirmation when the queue accepted    *)
(* the message, the apology when the send failed; apart from the message   *)
(* the two responses are equal.                                            *)
ConfirmationText ==
  Msg("You're all set. Expect my suggestions shortly! Have a good day.", <<>>)

ApologyText ==
  Msg("Sorry, we are facing some issues. Please try again later.", <<>>)

WithoutMessages(r) == [k \in DOMAIN r \ {"messages"} |-> r[k]]

C4_FulfillmentAlwaysCloses ==
  Called /\ IsFulfillment(event) =>
    /\ Responded
    /\ DialogType(outcome.value) = "Close"
    /\ outcome.value.sessionState.intent.state = "Fulfilled"
    /\ sqs \in {"ok", "error"}
    /\ outcome.value.messages =
         <<[contentType |-> "PlainText",
            content |-> IF sqs = "ok" THEN ConfirmationText ELSE ApologyText]>>
    /\ WithoutMessages(outcome.value) =
         WithoutMessages(lambda_handler(event, now, sqs # "ok").out.value)

C4_Witness ==
  /\ Called /\ IsFulfillment(event) /\ Responded
  /\ sqs = "error"
  /\ outcome.value.messages[1].content = ApologyText

C6_ValidWhenRulesHold ==
  vresult # NotCalled /\ AllPresentSatisfy(vslots, now) =>
    vresult = Return([isValid |-> TRUE])

(* C7: for every reservationDate value (the other present slots            *)
(* satisfying their rules) validate_slots returns and does not raise: a    *)
(* value that does not parse as a calendar date, or a date not later than  *)
(* the current date, is rejected with violatedSlot reservationDate, and a  *)
(* later date is accepted.                                                 *)
OthersSatisfy(slots, today) ==
  InvalidPositions(slots, today) \subseteq {3}

C7_DateAlwaysDecided ==
  /\ vresult # NotCalled
  /\ Present(vslots, "reservationDate")
  /\ OthersSatisfy(vslots, now)
  => /\ vresult.kind = "return"
     /\ IF DateRule(ValueOf(vslots, "reservationDate"), now)
        THEN vresult.value.isValid
        ELSE /\ ~vresult.value.isValid
             /\ vresult.value.violatedSlot = "reservationDate"

(* C8: when the validator reaches the party-size check (location and      *)
(* cuisine absent or valid, the date absent or a year-month-day date       *)
(* later than the current date), an integer party size n is accepted       *)
(* exactly when 1 <= n <= 10; otherwise the verdict is violatedSlot        *)
(* numberOfPeople. 0 and 11 are rejected, 1 and 10 accepted.               *)
ReachesPartySize(slots, today) ==
  /\ Present(slots, "numberOfPeople")
  /\ py_int(ValueOf(slots, "numberOfPeople")).kind = "return"
  /\ InvalidPositions(slots, today) \subseteq {4, 5}
  /\ Present(slots, "reservationDate") =>
       strptime_ymd(ValueOf(slots, "reservationDate")).kind = "return"

PartySize(slots) == py_int(ValueOf(slots, "numberOfPeople")).value

RecognizedNames == {"DiningSuggestionsIntent", "GreetingIntent", "ThankYouIntent"}

C9_RoutingTotal ==
  Called =>
    IF event.sessionState.intent.name \notin RecognizedNames
    THEN outcome = Return(None) /\ attempts = 0
    ELSE event.invocationSource \in {"DialogCodeHook", "FulfillmentCodeHook"}
         => /\ Responded
            /\ DialogType(outcome.value) \in {"Close", "ElicitSlot", "Delegate"}

(* C10: over any sequence of invocations the number of submissions to the *)
(* queue equals the number of fulfillment-phase dining invocations (one    *)
(* each, none repeated after a failure, none on any other path), and each  *)
(* accepted submission appends the request of its invocation to the queue, *)
(* so a repeated fulfillment invocation leaves a duplicate.                *)
RequestOf(e) ==
  [ReservationType |-> "Dining",
   location        |-> Get(IntentSlots(e), "location"),
   Cuisine         |-> Get(IntentSlots(e), "cuisine"),
   DiningTime      |-> Get(IntentSlots(e), "reservationTime"),
   DiningDate      |-> Get(IntentSlots(e), "reservationDate"),
   NumberofPeople  |-> Get(IntentSlots(e), "numberOfPeople"),
   Email           |-> Get(IntentSlots(e), "email"),
   PhoneNumber     |-> Get(IntentSlots(e), "phone_number")]

C10_OneSubmitPerFulfillment ==
  /\ attempts = fulfillments
  /\ Len(queue) <= attempts
  /\ Called /\ IsFulfillment(event) /\ sqs = "ok" =>
       Len(queue) > 0 /\ queue[Len(queue)] = RequestOf(event)
  /\ Called /\ ~IsFulfillment(event) => sqs = "unused"

(* the same fulfillment invocation made twice leaves two equal requests *)
C10_Witness ==
  /\ invocations = 2 /\ fulfillments = 2
  /\ Len(queue) = 2 /\ queue[1] = queue[2]
  /\ Present(queue[1], "location")

====
